---- MODULE Spec2Model ----
(***************************************************************************)
(* A model of the row-locking, query and text-expression behaviour that    *)
(* diesel's integration tests (diesel_tests/tests/select.rs) and the       *)
(* TextExpressionMethods trait (expression_methods/                        *)
(* text_expression_methods.rs) exercise.                                   *)
(*                                                                         *)
(* The statements the tests issue are modelled from the tests.  The        *)
(* backend's lock manager, which the tests talk to but which is not part   *)
(* of these files, is modelled from the specification (sections 4.3, 5).   *)
(*                                                                         *)
(* Timing: a timeout of the tests (recv_timeout of one second, a           *)
(* STATEMENT_TIMEOUT of 1000 ms) elapses only while the awaited statement  *)
(* is waiting for a row lock; a statement that is not waiting for a lock   *)
(* returns within the timeout.  The tests' own assertions rest on this.    *)
(***************************************************************************)
EXTENDS Integers, Sequences, FiniteSets, TLC

VARIABLES
    tx,         \* connection -> "none" | "open" | "closed"
    held,       \* connection -> row -> "none" | "update" | "no_key_update"
    pending,    \* connection -> the statement in flight, NoStmt when there is none
    timeoutSet, \* connection -> whether SET STATEMENT_TIMEOUT was executed on it
    fkRows,     \* connection -> rows referenced by its uncommitted inserts into users_fk_for_no_key_update
    fkCommitted, \* rows referenced by committed rows of users_fk_for_no_key_update
    last,       \* the last statement event: connection, statement, step, outcome, row
    issued,     \* number of statements issued so far
    pcMain,     \* select_for_update_locks_selected_rows: position of the test's thread
    pcThread,   \* thread -> position of the spawned thread
    chan,       \* the mpsc channel: names sent and not yet received
    doneOrder,  \* the order in which the two threads' updates completed
    lockRow,    \* the row the test's conn_1 locks
    freeRow,    \* the row the unblocked thread updates
    users,      \* the users table: rows in insertion order
    posts,      \* the posts table: rows in insertion order
    built,      \* the statement value a test built, NoStatement before
    result,     \* the outcome of the last execution of the built statement
    textRows,   \* the users table of the text examples: rows with name, hair_color
    column,     \* the column like() and not_like() are called on
    pattern,    \* the pattern given to like() and not_like()
    likeRun,    \* the rows loaded by filter(column.like(pattern))
    notLikeRun, \* the rows loaded by filter(column.not_like(pattern))
    concatRun,  \* the last select(column.concat(operand)): its type and rows
    backend,    \* the backend the statements are generated for and run on
    ast,        \* the locking clause and modifier of the statement under construction
    generated,  \* the outcome of the last SQL generation
    sent,       \* the SQL texts sent to the connection, each with its statement
    prepared,   \* the SQL text and the bound parameters handed to the connection
    wire        \* the statement as the backend runs it: each placeholder filled

dbVars == <<tx, held, pending, timeoutSet, fkRows, fkCommitted, last>>
testVars == <<pcMain, pcThread, chan, doneOrder, lockRow, freeRow>>
queryVars == <<users, posts, built, result>>
textVars == <<textRows, column, pattern, likeRun, notLikeRun, concatRun>>
genVars == <<backend, ast, generated, sent>>
bindVars == <<prepared, wire>>
otherVars == <<queryVars, textVars, genVars, bindVars>>
vars == <<tx, held, pending, timeoutSet, fkRows, fkCommitted, last, issued,
          pcMain, pcThread, chan, doneOrder, lockRow, freeRow,
          users, posts, built, result,
          textRows, column, pattern, likeRun, notLikeRun, concatRun,
          backend, ast, generated, sent, prepared, wire>>

(***************************************************************************)
(* Data of the tests.                                                      *)
(***************************************************************************)

\* The connections a test opens (conn_1, conn_2, conn_3).
Conns == {"conn_1", "conn_2", "conn_3"}

\* The rows inserted by the tests, in the order `.order(name)` yields them.
Rows == <<"Sean", "Tess", "Will">>

RowSet == {Rows[i] : i \in 1..Len(Rows)}

\* for_update() and for_no_key_update().
Strengths == {"update", "no_key_update"}

\* No modifier, no_wait() and skip_locked().
Policies == {"wait", "no_wait", "skip_locked"}

\* Number of statements and session commands the connections issue in one run.
MaxStmts == 3

NoStmt == [kind |-> "none", strength |-> "-", policy |-> "-", target |-> "-"]

\* table.order(name).<strength>().<policy>().first(), or with
\* .filter(name.eq(target)) when target is a row.
SelectStmt(s, p, f) == [kind |-> "select", strength |-> s, policy |-> p, target |-> f]

\* update(table.filter(name.eq(r))).set(name.eq(..)).execute(conn)
UpdateStmt(r) == [kind |-> "update", strength |-> "-", policy |-> "-", target |-> r]

\* INSERT INTO users_fk_for_no_key_update (users_fk) SELECT id FROM ... where name = r
InsertFkStmt(r) == [kind |-> "insert_fk", strength |-> "-", policy |-> "-", target |-> r]

\* The record of a statement's issue or return; seq numbers the events.
Event(c, st, step, outcome, r) ==
    [seq |-> last.seq + 1, conn |-> c, stmt |-> st, step |-> step,
     outcome |-> outcome, row |-> r]

(***************************************************************************)
(* The backend's lock manager.                                             *)
(***************************************************************************)

NoLocks == [r \in RowSet |-> "none"]

\* Some other connection's open transaction holds a row lock on r.
LockedByOther(c, r) == \E d \in Conns \ {c} : held[d][r] # "none"

\* Some other connection's open transaction holds a for_update() lock on r.
KeyLockedByOther(c, r) == \E d \in Conns \ {c} : held[d][r] = "update"

\* The rows a statement's filter matches.
Matching(f) == IF f = "*" THEN RowSet ELSE {f}

RECURSIVE FirstFrom(_, _)
\* The first row at or after position i of Rows that is in cands; "-" if none.
FirstFrom(i, cands) ==
    IF i > Len(Rows) THEN "-"
    ELSE IF Rows[i] \in cands THEN Rows[i]
    ELSE FirstFrom(i + 1, cands)

\* `.order(name).first()` over the candidate rows.
First(cands) == FirstFrom(1, cands)

\* The stronger of two locks one transaction holds on a row.
Stronger(a, b) == IF a = "update" \/ b = "update" THEN "update"
                  ELSE IF a = "no_key_update" \/ b = "no_key_update" THEN "no_key_update"
                  ELSE "none"

\* The locks of c after it locked row r with strength s: kept only inside a
\* transaction, which holds them until it ends.
Acquire(c, r, s) ==
    IF tx[c] = "open"
    THEN [held EXCEPT ![c][r] = Stronger(held[c][r], s)]
    ELSE held

\* Lock strength ignored: any row lock of another transaction blocks.
ConflictsAnyLock(c, st, r) == LockedByOther(c, r)

\* Whether statement st of connection c has to wait for a lock on row r.
Conflicts(c, st, r) ==
    CASE st.kind = "select" -> LockedByOther(c, r)
      [] st.kind = "update" -> LockedByOther(c, r)
      [] st.kind = "insert_fk" -> KeyLockedByOther(c, r)
      [] OTHER -> FALSE

\* no_wait() rendered as no modifier: the select waits.
OnConflictWaits(p) == "blocked"

\* What a locking select does when the row it needs is locked against it:
\* with no_wait() it fails at once, otherwise it waits.
OnConflict(p) == IF p = "no_wait" THEN "lock_not_available" ELSE "blocked"

\* The text of the error the connection returns for an outcome.
ErrorText(outcome) ==
    CASE outcome = "lock_not_available" -> "could not obtain lock on row"
      [] outcome = "statement_timeout" -> "canceling statement due to statement timeout"
      [] outcome = "not_found" -> "NotFound"
      [] OTHER -> ""

\* The connection's statement in flight is waiting for a row lock.
Blocked(c) == pending[c].kind # "none" /\ Conflicts(c, pending[c], pending[c].target)

\* The rows of users_fk_for_no_key_update connection c sees (by the row referenced).
VisibleFk(c) == fkCommitted \cup fkRows[c]

(***************************************************************************)
(* Statements on a connection.  Each action changes dbVars only.           *)
(***************************************************************************)

\* The connection can take a new statement: it is not closed and has no
\* statement in flight (one statement per connection at a time).
Idle(c) == tx[c] # "closed" /\ pending[c].kind = "none"

\* The effect of statement st of connection c getting through on row r.
Apply(c, st, r) ==
    /\ held' = (IF st.kind = "select" THEN Acquire(c, r, st.strength) ELSE held)
    /\ fkRows' = (IF st.kind = "insert_fk" /\ tx[c] = "open"
                  THEN [fkRows EXCEPT ![c] = @ \cup {r}] ELSE fkRows)
    /\ fkCommitted' = (IF st.kind = "insert_fk" /\ tx[c] # "open"
                       THEN fkCommitted \cup {r} ELSE fkCommitted)

\* skip_locked() rendered as no modifier: locked rows stay candidates.
CandidatesKeepLocked(c, p, f) == Matching(f)

\* The rows a locking select considers: skip_locked() leaves out the rows
\* another transaction has locked.
Candidates(c, p, f) ==
    IF p = "skip_locked" THEN {r \in Matching(f) : ~LockedByOther(c, r)}
    ELSE Matching(f)

\* table[.filter(name.eq(f))].order(name).<s>().<p>().first(conn)
IssueSelect(c, s, p, f) ==
    /\ Idle(c)
    /\ LET st == SelectStmt(s, p, f)
           r == First(Candidates(c, p, f))
       IN  IF r = "-"
           THEN /\ last' = Event(c, st, "issue", "not_found", "-")
                /\ UNCHANGED <<held, pending, fkRows, fkCommitted>>
           ELSE IF Conflicts(c, st, r)
           THEN IF OnConflict(p) = "lock_not_available"
                THEN /\ last' = Event(c, st, "issue", "lock_not_available", "-")
                     /\ UNCHANGED <<held, pending, fkRows, fkCommitted>>
                ELSE /\ pending' = [pending EXCEPT ![c] = SelectStmt(s, p, r)]
                     /\ last' = Event(c, st, "issue", "blocked", "-")
                     /\ UNCHANGED <<held, fkRows, fkCommitted>>
           ELSE /\ Apply(c, st, r)
                /\ last' = Event(c, st, "issue", "ok", r)
                /\ UNCHANGED pending
    /\ UNCHANGED <<tx, timeoutSet>>

\* An update or an insert (no wait policy): it waits while the row it needs
\* is locked against it.
IssueWrite(c, st) ==
    /\ Idle(c)
    /\ IF Conflicts(c, st, st.target)
       THEN /\ pending' = [pending EXCEPT ![c] = st]
            /\ last' = Event(c, st, "issue", "blocked", "-")
            /\ UNCHANGED <<held, fkRows, fkCommitted>>
       ELSE /\ Apply(c, st, st.target)
            /\ last' = Event(c, st, "issue", "ok", st.target)
            /\ UNCHANGED pending
    /\ UNCHANGED <<tx, timeoutSet>>

IssueUpdate(c, r) == IssueWrite(c, UpdateStmt(r))

IssueInsertFk(c, r) == IssueWrite(c, InsertFkStmt(r))

\* A waiting statement gets its lock and returns.
Complete(c) ==
    /\ pending[c].kind # "none"
    /\ ~Blocked(c)
    /\ Apply(c, pending[c], pending[c].target)
    /\ last' = Event(c, pending[c], "complete", "ok", pending[c].target)
    /\ pending' = [pending EXCEPT ![c] = NoStmt]
    /\ UNCHANGED <<tx, timeoutSet>>

\* conn.execute("SET STATEMENT_TIMEOUT TO 1000")
SetStatementTimeout(c) ==
    /\ Idle(c)
    /\ ~timeoutSet[c]
    /\ timeoutSet' = [timeoutSet EXCEPT ![c] = TRUE]
    /\ UNCHANGED <<tx, held, pending, fkRows, fkCommitted, last>>

\* The session's statement timeout cancels a statement that is still waiting.
StatementTimeout(c) ==
    /\ timeoutSet[c]
    /\ Blocked(c)
    /\ last' = Event(c, pending[c], "cancel", "statement_timeout", "-")
    /\ pending' = [pending EXCEPT ![c] = NoStmt]
    /\ UNCHANGED <<tx, held, timeoutSet, fkRows, fkCommitted>>

\* connection(): a new connection with its test transaction begun.
Connect(c) ==
    /\ tx[c] = "closed"
    /\ tx' = [tx EXCEPT ![c] = "open"]
    /\ UNCHANGED <<held, pending, timeoutSet, fkRows, fkCommitted, last>>

\* conn.begin_test_transaction()
Begin(c) ==
    /\ Idle(c)
    /\ tx[c] = "none"
    /\ tx' = [tx EXCEPT ![c] = "open"]
    /\ UNCHANGED <<held, pending, timeoutSet, fkRows, fkCommitted, last>>

\* The transaction commits: its locks are released, its inserts stay.
Commit(c) ==
    /\ Idle(c)
    /\ tx[c] = "open"
    /\ tx' = [tx EXCEPT ![c] = "none"]
    /\ held' = [held EXCEPT ![c] = NoLocks]
    /\ fkCommitted' = fkCommitted \cup fkRows[c]
    /\ fkRows' = [fkRows EXCEPT ![c] = {}]
    /\ UNCHANGED <<pending, timeoutSet, last>>

\* The transaction rolls back: its locks are released, its inserts are undone.
Rollback(c) ==
    /\ Idle(c)
    /\ tx[c] = "open"
    /\ tx' = [tx EXCEPT ![c] = "none"]
    /\ held' = [held EXCEPT ![c] = NoLocks]
    /\ fkRows' = [fkRows EXCEPT ![c] = {}]
    /\ UNCHANGED <<pending, timeoutSet, fkCommitted, last>>

\* The connection closes and its transaction's locks stay behind.
DropKeepsLocks(c) ==
    /\ tx[c] # "closed"
    /\ tx' = [tx EXCEPT ![c] = "closed"]
    /\ pending' = [pending EXCEPT ![c] = NoStmt]
    /\ UNCHANGED <<held, timeoutSet, fkRows, fkCommitted, last>>

\* drop(conn): the connection closes; a statement still outstanding on it is
\* aborted, its transaction is rolled back and its locks are released.
Drop(c) ==
    /\ tx[c] # "closed"
    /\ tx' = [tx EXCEPT ![c] = "closed"]
    /\ held' = [held EXCEPT ![c] = NoLocks]
    /\ fkRows' = [fkRows EXCEPT ![c] = {}]
    /\ pending' = [pending EXCEPT ![c] = NoStmt]
    /\ last' = (IF pending[c].kind # "none"
                THEN Event(c, pending[c], "abort", "aborted", "-") ELSE last)
    /\ UNCHANGED <<timeoutSet, fkCommitted>>

(***************************************************************************)
(* The connections issuing any of the tests' statements, in any order.     *)
(***************************************************************************)

NoEvent == [seq |-> 0, conn |-> "-", stmt |-> NoStmt, step |-> "-",
            outcome |-> "-", row |-> "-"]

DbInit ==
    /\ tx = [c \in Conns |-> "open"]
    /\ held = [c \in Conns |-> NoLocks]
    /\ pending = [c \in Conns |-> NoStmt]
    /\ timeoutSet = [c \in Conns |-> FALSE]
    /\ fkRows = [c \in Conns |-> {}]
    /\ fkCommitted = {}
    /\ last = NoEvent

TestIdle ==
    /\ pcMain = "-"
    /\ pcThread = [t \in {"blocked", "unblocked"} |-> "-"]
    /\ chan = <<>>
    /\ doneOrder = <<>>
    /\ lockRow = "-"
    /\ freeRow = "-"

\* No statement built, or no clause of that kind.
NoStatement == [from |-> "-"]

\* No execution yet.
NoResult == [run |-> 0, outcome |-> "-", before |-> <<>>, rows |-> <<>>]

\* The tables empty and no statement built.
QueryIdle ==
    /\ users = <<>>
    /\ posts = <<>>
    /\ built = NoStatement
    /\ result = NoResult

\* like() or not_like() not run yet.
NotRun == [ran |-> FALSE, rows |-> <<>>]

\* No concat() yet.
NoConcat == [outcome |-> "-", left |-> "-", operand |-> [kind |-> "-"],
             sqlType |-> "-", rows |-> <<>>]

\* The inputs of TextExpressionMethods not drawn, no method applied.
TextIdle ==
    /\ textRows = <<>>
    /\ column = "name"
    /\ pattern = <<>>
    /\ likeRun = NotRun
    /\ notLikeRun = NotRun
    /\ concatRun = NoConcat

\* A select without locking clause.
NoClauses == [lock |-> "none", modifier |-> "none"]

\* No SQL generated yet.
NotGenerated == [run |-> 0, outcome |-> "-", ast |-> NoClauses]

\* Nothing handed to the connection yet.
NotPrepared == [sql |-> <<>>, binds |-> <<>>, done |-> FALSE]

\* No statement under construction, nothing sent.
GenIdle ==
    /\ ast = NoClauses
    /\ generated = NotGenerated
    /\ sent = <<>>
    /\ prepared = NotPrepared
    /\ wire = <<>>

\* The locking model before its first step.
LockIdle == DbInit /\ issued = 0 /\ TestIdle

Init ==
    /\ LockIdle
    /\ QueryIdle
    /\ TextIdle
    /\ backend = "postgres"
    /\ GenIdle

\* A step that counts against the run's number of commands.
Counted ==
    /\ issued < MaxStmts
    /\ issued' = issued + 1
    /\ UNCHANGED <<testVars, otherVars>>

\* A step of the backend: a statement in flight returns.
Uncounted == UNCHANGED <<issued, testVars, otherVars>>

Filters == RowSet \cup {"*"}

Next ==
    \/ \E c \in Conns, s \in Strengths, p \in Policies, f \in Filters :
          Counted /\ IssueSelect(c, s, p, f)
    \/ \E c \in Conns, r \in RowSet : Counted /\ IssueUpdate(c, r)
    \/ \E c \in Conns, r \in RowSet : Counted /\ IssueInsertFk(c, r)
    \/ \E c \in Conns : Counted /\ Begin(c)
    \/ \E c \in Conns : Counted /\ Commit(c)
    \/ \E c \in Conns : Counted /\ Rollback(c)
    \/ \E c \in Conns : Counted /\ Drop(c)
    \/ \E c \in Conns : Counted /\ SetStatementTimeout(c)
    \/ \E c \in Conns : Uncounted /\ Complete(c)
    \/ \E c \in Conns : Uncounted /\ StatementTimeout(c)

Spec == Init /\ [][Next]_vars

(***************************************************************************)
(* Properties of the locking clause.                                       *)
(***************************************************************************)

\* The position of row r in the order `.order(name)` yields.
Pos(r) == CHOOSE i \in 1..Len(Rows) : Rows[i] = r

\* r is the row of S that comes first in that order.
IsFirstOf(r, S) == r \in S /\ \A q \in S : Pos(r) <= Pos(q)

\* C3: a locking select with no_wait() whose first matching row is locked by
\* another connection's open transaction returns the error "could not obtain
\* lock on row" in the step that issues it: the connection never waits, no
\* row is returned or locked, and the error is not the statement-timeout
\* error (also when the session has a statement timeout set).
C3_NoWaitFailsAtOnce ==
    [][(/\ last'.seq # last.seq
        /\ last'.step = "issue"
        /\ last'.stmt.kind = "select"
        /\ last'.stmt.policy = "no_wait"
        /\ \E r \in Matching(last'.stmt.target) :
              /\ IsFirstOf(r, Matching(last'.stmt.target))
              /\ LockedByOther(last'.conn, r))
       => /\ ErrorText(last'.outcome) = "could not obtain lock on row"
          /\ ErrorText(last'.outcome) # ErrorText("statement_timeout")
          /\ last'.row = "-"
          /\ pending'[last'.conn].kind = "none"
          /\ held' = held]_vars

\* C3 witness: a connection with a statement timeout set has just been
\* refused a no_wait() select because another connection holds the row.
C3_Witness ==
    /\ last.stmt.kind = "select"
    /\ last.stmt.policy = "no_wait"
    /\ last.outcome = "lock_not_available"
    /\ timeoutSet[last.conn]
    /\ \E d \in Conns \ {last.conn} : held[d]["Sean"] = "update"

\* C4: a locking select of either strength with skip_locked() and first(),
\* when some matching row is not locked by another connection's open
\* transaction, returns in the step that issues it, without error, the first
\* such row in the order, and locks it; every row that another open
\* transaction has locked is left out.
C4_SkipLockedReturnsFirstUnlocked ==
    [][LET c == last'.conn
           unlocked == {r \in Matching(last'.stmt.target) : ~LockedByOther(c, r)}
       IN  (/\ last'.seq # last.seq
            /\ last'.step = "issue"
            /\ last'.stmt.kind = "select"
            /\ last'.stmt.policy = "skip_locked"
            /\ unlocked # {})
           => /\ last'.outcome = "ok"
              /\ ErrorText(last'.outcome) = ""
              /\ pending'[c].kind = "none"
              /\ IsFirstOf(last'.row, unlocked)
              /\ tx[c] = "open" => held'[c][last'.row] \in {last'.stmt.strength, "update"}]_vars

\* C4 witness: with Sean locked by one connection and Tess by a second, a
\* third connection's skip_locked() select has returned Will.
C4_Witness ==
    /\ last.stmt.kind = "select"
    /\ last.stmt.policy = "skip_locked"
    /\ last.stmt.target = "*"
    /\ last.outcome = "ok"
    /\ last.row = "Will"
    /\ \E a, b \in Conns \ {last.conn} :
          a # b /\ held[a]["Sean"] # "none" /\ held[b]["Tess"] # "none"

\* C5: an insert whose foreign key references a row that another open
\* transaction has locked with for_no_key_update() completes in the step that
\* issues it and its row is visible to the inserting connection; an insert
\* referencing a row that another open transaction has locked with
\* for_update() waits, does not complete and inserts nothing in any step taken
\* while that lock is held, and when the session's statement timeout cancels
\* it, it returns the timeout error and has inserted nothing.
C5_LockStrengthDecidesFkInsert ==
    [][/\ LET c == last'.conn
              r == last'.stmt.target
          IN  (/\ last'.seq # last.seq
               /\ last'.step = "issue"
               /\ last'.stmt.kind = "insert_fk")
              => /\ (\E d \in Conns \ {c} : held[d][r] = "no_key_update")
                    => /\ last'.outcome = "ok"
                       /\ pending'[c].kind = "none"
                       /\ r \in fkCommitted' \cup fkRows'[c]
                 /\ (\E d \in Conns \ {c} : held[d][r] = "update")
                    => /\ last'.outcome = "blocked"
                       /\ pending'[c] = InsertFkStmt(r)
                       /\ fkRows' = fkRows /\ fkCommitted' = fkCommitted
       /\ \A c \in Conns :
             (/\ pending[c].kind = "insert_fk"
              /\ \E d \in Conns \ {c} : held[d][pending[c].target] = "update")
             => /\ fkRows'[c] \subseteq fkRows[c]
                /\ ~(last'.seq # last.seq /\ last'.conn = c /\ last'.outcome = "ok")
                /\ pending'[c].kind = "none"
                   => /\ last'.seq # last.seq
                      /\ last'.conn = c
                      /\ last'.stmt = pending[c]
                      /\ last'.outcome \in {"statement_timeout", "aborted"}
                      /\ fkCommitted' = fkCommitted
       /\ (last'.seq # last.seq /\ last'.step = "cancel")
          => /\ ErrorText(last'.outcome) = "canceling statement due to statement timeout"
             /\ timeoutSet[last'.conn]
             /\ fkRows' = fkRows /\ fkCommitted' = fkCommitted]_vars

\* C5 witness: an insert referencing a row locked with for_update() by another
\* open transaction has been cancelled by the statement timeout, and the
\* inserting connection sees no row referencing it.
C5_Witness ==
    /\ last.stmt.kind = "insert_fk"
    /\ last.outcome = "statement_timeout"
    /\ \E d \in Conns \ {last.conn} : held[d][last.stmt.target] = "update"
    /\ last.stmt.target \notin VisibleFk(last.conn)

\* The insert that goes through under a for_no_key_update() lock.
C5_NoKeyWitness ==
    /\ last.stmt.kind = "insert_fk"
    /\ last.outcome = "ok"
    /\ \E d \in Conns \ {last.conn} : held[d][last.row] = "no_key_update"
    /\ last.row \in VisibleFk(last.conn)

(***************************************************************************)
(* select_for_update_locks_selected_rows: conn_1 locks a row, one thread   *)
(* updates that row through conn_2, another thread updates a different row *)
(* through conn_3, and each thread sends its row's name when its update    *)
(* has returned.  The test locks "Sean" and updates "Sean" and "Tess";     *)
(* here the two rows are any two different rows.  How conn_1's transaction *)
(* ends is drop(conn_1) in the test; commit and rollback are the other two *)
(* ways the specification names.                                           *)
(***************************************************************************)

Threads == {"blocked", "unblocked"}

ThreadConn(t) == IF t = "blocked" THEN "conn_2" ELSE "conn_3"

ThreadRow(t) == IF t = "blocked" THEN lockRow ELSE freeRow

Endings == {"drop", "commit", "rollback"}

LockTestInit ==
    /\ tx = [c \in Conns |-> IF c = "conn_1" THEN "none" ELSE "closed"]
    /\ held = [c \in Conns |-> NoLocks]
    /\ pending = [c \in Conns |-> NoStmt]
    /\ timeoutSet = [c \in Conns |-> FALSE]
    /\ fkRows = [c \in Conns |-> {}]
    /\ fkCommitted = {}
    /\ last = NoEvent
    /\ issued = 0
    /\ pcMain = "begin"
    /\ pcThread = [t \in Threads |-> "-"]
    /\ chan = <<>>
    /\ doneOrder = <<>>
    /\ lockRow \in RowSet
    /\ freeRow \in RowSet \ {lockRow}
    /\ QueryIdle
    /\ TextIdle
    /\ backend = "postgres"
    /\ GenIdle

\* A panic of the test's thread unwinds it: conn_1 is dropped.
Panic ==
    /\ pcMain' = "panicked"
    /\ IF tx["conn_1"] # "closed" THEN Drop("conn_1") ELSE UNCHANGED dbVars

\* conn_1.begin_test_transaction().unwrap()
MainBegin ==
    /\ pcMain = "begin"
    /\ Begin("conn_1")
    /\ pcMain' = "select"
    /\ UNCHANGED <<pcThread, chan, doneOrder>>

\* A select without for_update(): no row lock is taken.
MainSelectNoLock ==
    /\ pcMain = "select"
    /\ pcMain' = "spawn_blocked"
    /\ UNCHANGED <<dbVars, pcThread, chan, doneOrder>>

\* users_select_for_update.for_update().filter(name.eq("Sean")).first(&mut conn_1).unwrap()
MainSelect ==
    /\ pcMain = "select"
    /\ IssueSelect("conn_1", "update", "wait", lockRow)
    /\ pcMain' = (IF last'.outcome = "ok" THEN "spawn_blocked" ELSE "panicked")
    /\ UNCHANGED <<pcThread, chan, doneOrder>>

\* thread::spawn of _blocked_thread, then of _unblocked_thread
MainSpawn(t) ==
    /\ pcMain = (IF t = "blocked" THEN "spawn_blocked" ELSE "spawn_unblocked")
    /\ pcMain' = (IF t = "blocked" THEN "spawn_unblocked" ELSE "recv_first")
    /\ pcThread' = [pcThread EXCEPT ![t] = "connect"]
    /\ UNCHANGED <<dbVars, chan, doneOrder>>

\* A spawned thread can still get to its send without any other step of the test.
CanProgress(t) ==
    \/ pcThread[t] \in {"connect", "update", "send"}
    \/ pcThread[t] = "waiting" /\ ~Blocked(ThreadConn(t))

\* recv.recv_timeout(timeout) returns Err: the channel is empty and the
\* timeout elapses (no thread gets to its send within it) or every sender is gone.
RecvErr == chan = <<>> /\ \A t \in Threads : ~CanProgress(t)

\* recv.recv_timeout(timeout) returns Ok(name).
RecvOk == chan # <<>>

\* let next = recv.recv_timeout(timeout).unwrap(); assert_eq!("Tess", next)
MainRecvFirst ==
    /\ pcMain = "recv_first"
    /\ RecvOk \/ RecvErr
    /\ IF RecvOk /\ Head(chan) = freeRow
       THEN /\ pcMain' = "recv_blocked"
            /\ chan' = Tail(chan)
            /\ UNCHANGED dbVars
       ELSE /\ Panic
            /\ chan' = <<>>
    /\ UNCHANGED <<pcThread, doneOrder>>

\* let next = recv.recv_timeout(timeout); assert!(next.is_err())
MainRecvBlocked ==
    /\ pcMain = "recv_blocked"
    /\ RecvOk \/ RecvErr
    /\ IF RecvErr
       THEN /\ pcMain' = "end_tx"
            /\ UNCHANGED <<dbVars, chan>>
       ELSE /\ Panic
            /\ chan' = <<>>
    /\ UNCHANGED <<pcThread, doneOrder>>

\* drop(conn_1), or conn_1's transaction committed or rolled back
MainEndTransaction(how) ==
    /\ pcMain = "end_tx"
    /\ CASE how = "drop" -> Drop("conn_1")
         [] how = "commit" -> Commit("conn_1")
         [] how = "rollback" -> Rollback("conn_1")
    /\ pcMain' = "recv_last"
    /\ UNCHANGED <<pcThread, chan, doneOrder>>

\* let next = recv.recv_timeout(timeout).unwrap(); assert_eq!("Sean", next);
\* the test returns and what it still owns is dropped
MainRecvLast ==
    /\ pcMain = "recv_last"
    /\ RecvOk \/ RecvErr
    /\ IF RecvOk /\ Head(chan) = lockRow
       THEN /\ pcMain' = "done"
            /\ IF tx["conn_1"] # "closed" THEN Drop("conn_1") ELSE UNCHANGED dbVars
       ELSE Panic
    /\ chan' = <<>>
    /\ UNCHANGED <<pcThread, doneOrder>>

\* let mut conn_2 = connection()
ThreadConnect(t) ==
    /\ pcThread[t] = "connect"
    /\ Connect(ThreadConn(t))
    /\ pcThread' = [pcThread EXCEPT ![t] = "update"]
    /\ UNCHANGED <<pcMain, chan, doneOrder>>

\* update(users_select_for_update.filter(name.eq(..))).set(..).execute(&mut conn): issued
ThreadUpdate(t) ==
    /\ pcThread[t] = "update"
    /\ IssueUpdate(ThreadConn(t), ThreadRow(t))
    /\ IF last'.outcome = "ok"
       THEN /\ pcThread' = [pcThread EXCEPT ![t] = "send"]
            /\ doneOrder' = Append(doneOrder, ThreadRow(t))
       ELSE /\ pcThread' = [pcThread EXCEPT ![t] = "waiting"]
            /\ UNCHANGED doneOrder
    /\ UNCHANGED <<pcMain, chan>>

\* ... .execute(&mut conn).unwrap(): the update that had to wait returns
ThreadUpdateReturns(t) ==
    /\ pcThread[t] = "waiting"
    /\ Complete(ThreadConn(t))
    /\ pcThread' = [pcThread EXCEPT ![t] = "send"]
    /\ doneOrder' = Append(doneOrder, ThreadRow(t))
    /\ UNCHANGED <<pcMain, chan>>

\* send.send(name).unwrap(): Err, and a panic of the thread, once the receiver is gone
ThreadSend(t) ==
    /\ pcThread[t] = "send"
    /\ chan' = (IF pcMain \in {"done", "panicked"} THEN chan ELSE Append(chan, ThreadRow(t)))
    /\ pcThread' = [pcThread EXCEPT ![t] = "end"]
    /\ UNCHANGED <<dbVars, pcMain, doneOrder>>

\* The thread ends: its connection is dropped.
ThreadEnd(t) ==
    /\ pcThread[t] = "end"
    /\ Drop(ThreadConn(t))
    /\ pcThread' = [pcThread EXCEPT ![t] = "done"]
    /\ UNCHANGED <<pcMain, chan, doneOrder>>

\* The test's inputs and the command count stay as they are.
Fixed == UNCHANGED <<issued, lockRow, freeRow, otherVars>>

Main ==
    \/ MainBegin /\ Fixed
    \/ MainSelect /\ Fixed
    \/ \E t \in Threads : MainSpawn(t) /\ Fixed
    \/ MainRecvFirst /\ Fixed
    \/ MainRecvBlocked /\ Fixed
    \/ \E how \in Endings : MainEndTransaction(how) /\ Fixed
    \/ MainRecvLast /\ Fixed

Thread(t) ==
    \/ ThreadConnect(t) /\ Fixed
    \/ ThreadUpdate(t) /\ Fixed
    \/ ThreadUpdateReturns(t) /\ Fixed
    \/ ThreadSend(t) /\ Fixed
    \/ ThreadEnd(t) /\ Fixed

LockTestNext == Main \/ \E t \in Threads : Thread(t)

LockTest == LockTestInit /\ [][LockTestNext]_vars

\* The threads and the test's own thread are scheduled, and the backend
\* grants a lock that is free.
FairLockTest ==
    /\ LockTest
    /\ WF_vars(Main)
    /\ \A t \in Threads : WF_vars(Thread(t))

\* The rows whose update has returned.
Updated == {doneOrder[i] : i \in 1..Len(doneOrder)}

\* C1: while conn_1, which selected a row with for_update() and no wait
\* policy, has its transaction open, the update of that row by conn_2 has not
\* returned; the update of a different row by conn_3 never waits; in every
\* interleaving the update of the other row returns before the update of the
\* locked row, and the test's assertions hold.
C1_ConflictingUpdateWaits ==
    /\ (tx["conn_1"] = "open" /\ pcMain # "select") => lockRow \notin Updated
    /\ pcThread["unblocked"] # "waiting"
    /\ doneOrder \in {<<>>, <<freeRow>>, <<freeRow, lockRow>>}
    /\ pcMain # "panicked"

\* C1 witness: the test has passed with "Sean" locked: the "Tess" update
\* returned first, the "Sean" update after conn_1 was dropped.
C1_Witness ==
    /\ pcMain = "done"
    /\ lockRow = "Sean" /\ freeRow = "Tess"
    /\ doneOrder = <<"Tess", "Sean">>
    /\ last.outcome = "ok" /\ last.step = "complete" /\ last.conn = "conn_2"

\* C2: each way of ending a transaction (commit, rollback, dropping the
\* connection) leaves the connection holding no row lock, and an update that
\* waits for a row conn_1 locked returns eventually once conn_1's transaction
\* has ended.
C2_EndingReleasesLocks ==
    /\ [][\A c \in Conns :
             (tx[c] = "open" /\ tx'[c] # "open") => held'[c] = NoLocks]_vars
    /\ \A t \in Threads :
          (pcThread[t] = "waiting" /\ tx["conn_1"] # "open")
             ~> (pcThread[t] \in {"send", "end", "done"} /\ ThreadRow(t) \in Updated)

\* C2 witness: conn_1's transaction was committed or rolled back (the
\* connection is still there, without a transaction), and the update that
\* waited for the row it had locked has returned.
C2_Witness ==
    /\ tx["conn_1"] = "none"
    /\ pcMain = "recv_last"
    /\ held["conn_1"] = NoLocks
    /\ lockRow \in Updated
    /\ last.conn = "conn_2" /\ last.step = "complete" /\ last.outcome = "ok"

(***************************************************************************)
(* Statements as values, and their execution against the tables            *)
(* (with_select_sql, selection_using_subselect,                            *)
(* select_can_be_called_on_query_that_is_valid_subselect_but_invalid_query).*)
(***************************************************************************)

\* The names of connection_with_sean_and_tess_in_users_table().
UserNames == {"Sean", "Tess"}

\* Titles of the posts the tests insert: one that is no user's name and one
\* that is.
Titles == {"Hello", "Tess"}

\* Most rows of users in one run.
MaxUsers == 2

\* Most rows of posts in one run.
MaxPosts == 2

\* table::column
Column(t, n) == [table |-> t, name |-> n]

\* sql::<BigInt>("COUNT(*)")
CountStar == [table |-> "-", name |-> "COUNT(*)"]

\* No filter.
True == [op |-> "true"]

\* column.eq(value)
Eq(col, v) == [op |-> "eq", col |-> col, value |-> v]

\* column.eq(other_column)
EqCol(col, other) == [op |-> "eq_col", col |-> col, other |-> other]

\* column.eq_any(subselect)
EqAny(col, sub) == [op |-> "eq_any", col |-> col, sub |-> sub]

\* table.filter(filter).select(select)
Statement(from, select, filter) ==
    [from |-> from, select |-> select, filter |-> filter]

\* users::table.select(sql::<BigInt>("COUNT(*)"))
SelectCount == Statement("users", CountStar, True)

\* The subselect without its filter.
UsersUnfiltered(col, v) == Statement("users", Column("users", "id"), True)

\* users::table.filter(users::<col>.eq(v)).select(users::id)
UsersWhere(col, v) ==
    Statement("users", Column("users", "id"), Eq(Column("users", col), v))

\* posts.select(title).filter(user_id.eq_any(sub))
PostsOfUsers(sub) ==
    Statement("posts", Column("posts", "title"),
              EqAny(Column("posts", "user_id"), sub))

\* posts::table.filter(posts::title.eq(users::name)).select(posts::user_id)
PostsTitledAsUser ==
    Statement("posts", Column("posts", "user_id"),
              EqCol(Column("posts", "title"), Column("users", "name")))

\* users::table.filter(users::id.eq_any(sub)), loaded as whole rows
UsersWithPost(sub) ==
    Statement("users", Column("users", "*"),
              EqAny(Column("users", "id"), sub))

\* The statements the tests build and execute.
TestStatements ==
    {SelectCount, UsersWithPost(PostsTitledAsUser)}
        \cup {PostsOfUsers(UsersWhere("name", n)) : n \in UserNames}
        \cup {PostsOfUsers(UsersWhere("id", k)) : k \in 1..MaxUsers}

\* The rows of a table.
Table(t) == IF t = "users" THEN users ELSE posts

\* No row in scope.
NoScope == [t \in {} |-> t]

\* The scope of a statement over table t at one of its rows, inside env.
Bind(env, t, row) ==
    [x \in DOMAIN env \cup {t} |-> IF x = t THEN row ELSE env[x]]

\* The value of a table-qualified column in scope.
Value(col, env) ==
    IF col.name = "*" THEN env[col.table] ELSE env[col.table][col.name]

RECURSIVE Holds(_, _)
RECURSIVE LoadFrom(_, _, _)

\* The selected values of the rows of st's table from position i on that
\* pass st's filter, in table order.
LoadFrom(st, env, i) ==
    IF i > Len(Table(st.from)) THEN <<>>
    ELSE LET scope == Bind(env, st.from, Table(st.from)[i])
             rest == LoadFrom(st, env, i + 1)
         IN  IF Holds(st.filter, scope)
             THEN <<(IF st.select = CountStar THEN 1 ELSE Value(st.select, scope))>> \o rest
             ELSE rest

\* Whether a filter holds in a scope.
Holds(p, env) ==
    CASE p.op = "true" -> TRUE
      [] p.op = "eq" -> Value(p.col, env) = p.value
      [] p.op = "eq_col" -> Value(p.col, env) = Value(p.other, env)
      [] p.op = "eq_any" ->
            LET sub == LoadFrom(p.sub, env, 1)
            IN  \E j \in 1..Len(sub) : sub[j] = Value(p.col, env)

\* statement.load(conn); for COUNT(*) the one row holding the count.
Load(st) ==
    LET rows == LoadFrom(st, NoScope, 1)
    IN  IF st.select = CountStar THEN <<Len(rows)>> ELSE rows

\* connection.execute("INSERT INTO users (name) VALUES (..)")
InsertUser(n) ==
    /\ Len(users) < MaxUsers
    /\ users' = Append(users, [id |-> Len(users) + 1, name |-> n])
    /\ UNCHANGED <<posts, built, result>>

\* connection.execute("INSERT INTO posts (user_id, title) VALUES (..)")
InsertPost(u, t) ==
    /\ Len(posts) < MaxPosts
    /\ posts' = Append(posts, [id |-> Len(posts) + 1, user_id |-> u, title |-> t])
    /\ UNCHANGED <<users, built, result>>

\* let statement = ..: the statement is built, once.
Build(q) ==
    /\ built = NoStatement
    /\ built' = q
    /\ UNCHANGED <<users, posts, result>>

\* The outcome of an execution that returned rows.
Executed(rows) ==
    [run |-> 1 - result.run, outcome |-> "ok", before |-> result.rows,
     rows |-> rows]

\* An execution that answers from the previous execution's rows.
ExecuteCached ==
    /\ built # NoStatement
    /\ result' = Executed(IF result.outcome = "ok" THEN result.rows ELSE Load(built))
    /\ UNCHANGED <<users, posts, built>>

\* statement.clone().first(conn) or statement.load(conn): a copy of the
\* statement is run against the tables as they are now.
Execute ==
    /\ built # NoStatement
    /\ result' = Executed(Load(built))
    /\ UNCHANGED <<users, posts, built>>

\* The locking model stays as it is.
QueryStep == UNCHANGED <<dbVars, issued, testVars, textVars, genVars, bindVars>>

QueryNext ==
    \/ \E n \in UserNames : InsertUser(n) /\ QueryStep
    \/ \E u \in 1..MaxUsers, t \in Titles : InsertPost(u, t) /\ QueryStep
    \/ \E q \in TestStatements : Build(q) /\ QueryStep
    \/ Execute /\ QueryStep

QuerySpec == Init /\ [][QueryNext]_vars

\* C6: an execution never changes the statement that was built, and each
\* execution of the COUNT(*) statement returns the number of rows the users
\* table holds at that execution, whatever an earlier execution returned.
C6_ReexecutionSeesInserts ==
    /\ [][built # NoStatement => built' = built]_vars
    /\ [][(result'.run # result.run /\ built = SelectCount)
             => (result'.outcome = "ok" /\ result'.rows = <<Len(users)>>)]_vars

\* C6 witness: the COUNT(*) statement returned 1, a row was inserted, and the
\* same statement returned 2.
C6_Witness ==
    /\ built = SelectCount
    /\ result.outcome = "ok"
    /\ result.before = <<1>>
    /\ result.rows = <<2>>
    /\ Len(users) = 2

\* The titles of a sequence of posts.
TitlesOf(ps) == [i \in 1..Len(ps) |-> ps[i].title]

\* The statement built is posts.select(title).filter(user_id.eq_any(S)) with
\* S = users.filter(<c>.eq(v)).select(id).
BuiltPostsOfUsersWhere(c, v) ==
    /\ built.from = "posts"
    /\ built.filter.sub.filter.op = "eq" => built.filter.sub.filter.col.name = c
    /\ built = PostsOfUsers(UsersWhere(c, v))

\* C7: an execution of posts.select(title).filter(user_id.eq_any(S)), with S
\* the ids of the users whose name (or whose id, a column name posts has too)
\* equals a value, returns the titles of exactly the posts whose user_id is
\* the id of some such user; an execution of
\* users.filter(id.eq_any(posts.filter(title.eq(users::name)).select(user_id)))
\* returns exactly the users for whom some post has their id as user_id and
\* their name as title.
C7_EqAnySelectsMatchingRows ==
    [][result'.run # result.run =>
         /\ \A c \in {"name", "id"} :
            \A v \in (IF c = "name" THEN UserNames ELSE 1..MaxUsers) :
               BuiltPostsOfUsersWhere(c, v) =>
                  result'.rows = TitlesOf(SelectSeq(posts,
                      LAMBDA p : \E i \in 1..Len(users) :
                          users[i][c] = v /\ users[i].id = p.user_id))
         /\ built = UsersWithPost(PostsTitledAsUser) =>
               result'.rows = SelectSeq(users,
                   LAMBDA u : \E j \in 1..Len(posts) :
                       posts[j].title = u.name /\ posts[j].user_id = u.id)]_vars

\* C7 witness: Sean and Tess are users, Tess has the post titled "Tess" and
\* Sean a post titled "Hello"; the correlated statement returned Tess alone.
C7_Witness ==
    /\ built = UsersWithPost(PostsTitledAsUser)
    /\ result.outcome = "ok"
    /\ users = <<[id |-> 1, name |-> "Sean"], [id |-> 2, name |-> "Tess"]>>
    /\ posts = <<[id |-> 1, user_id |-> 2, title |-> "Tess"],
                 [id |-> 2, user_id |-> 1, title |-> "Hello"]>>
    /\ result.rows = <<[id |-> 2, name |-> "Tess"]>>

\* The subselect's filter is on id, a column name posts has too: the posts of
\* user 1 were returned, not the post whose own id is 1.
C7_SharedNameWitness ==
    /\ BuiltPostsOfUsersWhere("id", 1)
    /\ result.outcome = "ok"
    /\ Len(users) = 2
    /\ posts = <<[id |-> 1, user_id |-> 2, title |-> "Tess"],
                 [id |-> 2, user_id |-> 1, title |-> "Hello"]>>
    /\ result.rows = <<"Hello">>

(***************************************************************************)
(* TextExpressionMethods: concat, like, not_like                           *)
(* (expression_methods/text_expression_methods.rs).  A text value is the   *)
(* sequence of its characters.                                             *)
(***************************************************************************)

\* "Sean", "Tess": the names of the examples' users.
Sean == <<"S", "e", "a", "n">>

Tess == <<"T", "e", "s", "s">>

\* "Green": Sean's hair_color.
Green == <<"G", "r", "e", "e", "n">>

\* "ish": the literal appended to hair_color.
Ish == <<"i", "s", "h">>

\* NULL, which is no text.
Null == <<"NULL">>

\* name -> VarChar: never NULL.
Names == {Sean, Tess}

\* hair_color -> Nullable<Text>.
HairColors == {Green, Null}

\* Most rows of the examples' users table.
MaxTextRows == 2

\* The tables the methods are applied to.
TextTables ==
    UNION {[1..n -> [name : Names, hair_color : HairColors]] : n \in 0..MaxTextRows}

\* The columns of the examples' users table that are text.
TextColumns == {"name", "hair_color"}

\* The SqlType of a column, as table! declares it.
SqlTypeOf(col) == IF col = "name" THEN "Text" ELSE "Nullable<Text>"

\* The types TextOrNullableText is implemented for.
TextOrNullableText == {"Text", "Nullable<Text>"}

\* The backends.
Backends == {"postgres", "sqlite", "mysql"}

\* LIKE is case insensitive for SQLite and MySQL, case sensitive on PostgreSQL.
CaseInsensitive(b) == b \in {"sqlite", "mysql"}

\* Longest pattern.
MaxPatLen == 2

\* The characters of a pattern: letters, and the wildcards % and _.
PatChars == {"S", "s", "e", "%", "_"}

Patterns == UNION {[1..n -> PatChars] : n \in 0..MaxPatLen}

\* The operands a method accepts next to the column: a &str, an Option<&str>,
\* a column.
Operands ==
    {[kind |-> "str", value |-> Ish]}
        \cup {[kind |-> "option", value |-> v] : v \in {Ish, Null}}
        \cup {[kind |-> "column", column |-> c] : c \in TextColumns}

\* The SqlTypes an operand is an expression of (AsExpression).
ConvertsTo(operand) ==
    CASE operand.kind = "str" -> {"Text", "Nullable<Text>"}
      [] operand.kind = "option" -> {"Nullable<Text>"}
      [] operand.kind = "column" -> {SqlTypeOf(operand.column)}

\* Any operand accepted, whatever its type.
AcceptsAny(t, operand) == TRUE

\* where T: AsExpression<Self::SqlType>
Accepts(t, operand) == t \in ConvertsTo(operand)

\* The value of an operand at a row.
OperandValue(operand, row) ==
    IF operand.kind = "column" THEN row[operand.column] ELSE operand.value

\* a || b
ConcatValue(a, b) == IF a = Null \/ b = Null THEN Null ELSE a \o b

\* users.select(left.concat(operand)).load(conn): rejected when the operand is
\* no expression of the column's type; else typed as the column and loaded.
RunConcat(left, operand) ==
    /\ SqlTypeOf(left) \in TextOrNullableText
    /\ concatRun' =
          IF ~Accepts(SqlTypeOf(left), operand)
          THEN [outcome |-> "rejected", left |-> left, operand |-> operand,
                sqlType |-> "-", rows |-> <<>>]
          ELSE [outcome |-> "ok", left |-> left, operand |-> operand,
                sqlType |-> SqlTypeOf(left),
                rows |-> [i \in 1..Len(textRows) |->
                            ConcatValue(textRows[i][left],
                                        OperandValue(operand, textRows[i]))]]
    /\ UNCHANGED <<textRows, column, pattern, likeRun, notLikeRun>>

\* Lower case of a character.
Fold(ch) ==
    CASE ch = "S" -> "s"
      [] ch = "T" -> "t"
      [] ch = "G" -> "g"
      [] OTHER -> ch

\* Whether two characters match on backend b.
SameChar(a, b, bk) == IF CaseInsensitive(bk) THEN Fold(a) = Fold(b) ELSE a = b

RECURSIVE LikeMatch(_, _, _)
\* Whether text v matches pattern p: % stands for any characters, _ for one.
LikeMatch(v, p, bk) ==
    IF p = <<>> THEN v = <<>>
    ELSE IF Head(p) = "%"
         THEN LikeMatch(v, Tail(p), bk) \/ (v # <<>> /\ LikeMatch(Tail(v), p, bk))
    ELSE /\ v # <<>>
         /\ Head(p) = "_" \/ SameChar(Head(v), Head(p), bk)
         /\ LikeMatch(Tail(v), Tail(p), bk)

\* v LIKE p: unknown when either is NULL.
LikeTruth(v, p, bk) ==
    IF v = Null \/ p = Null THEN "unknown"
    ELSE IF LikeMatch(v, p, bk) THEN "true" ELSE "false"

\* NOT of a truth value.
Not(t) == CASE t = "true" -> "false" [] t = "false" -> "true" [] OTHER -> "unknown"

\* Like::new(self, other.as_expression())
Like(col, p) == [op |-> "like", left |-> col, right |-> p]

\* not_like built as like.
NotLikeAsLike(col, p) == [op |-> "like", left |-> col, right |-> p]

\* NotLike::new(self, other.as_expression())
NotLike(col, p) == [op |-> "not_like", left |-> col, right |-> p]

\* The truth value of a Like or NotLike expression at a row.
Truth(e, row, bk) ==
    IF e.op = "like" THEN LikeTruth(row[e.left], e.right, bk)
    ELSE Not(LikeTruth(row[e.left], e.right, bk))

RECURSIVE FilterFrom(_, _)
\* The positions, from i on, of the rows for which e is true.
FilterFrom(e, i) ==
    IF i > Len(textRows) THEN <<>>
    ELSE IF Truth(e, textRows[i], backend) = "true"
         THEN <<i>> \o FilterFrom(e, i + 1)
    ELSE FilterFrom(e, i + 1)

\* users.filter(column.like(pattern)).load(conn)
RunLike ==
    /\ SqlTypeOf(column) \in TextOrNullableText
    /\ likeRun' = [ran |-> TRUE, rows |-> FilterFrom(Like(column, pattern), 1)]
    /\ UNCHANGED <<textRows, column, pattern, notLikeRun, concatRun>>

\* users.filter(column.not_like(pattern)).load(conn)
RunNotLike ==
    /\ SqlTypeOf(column) \in TextOrNullableText
    /\ notLikeRun' = [ran |-> TRUE, rows |-> FilterFrom(NotLike(column, pattern), 1)]
    /\ UNCHANGED <<textRows, column, pattern, likeRun, concatRun>>

\* The other parts of the model stay as they are.
TextStep == UNCHANGED <<dbVars, issued, testVars, queryVars, genVars, bindVars>>

\* concat on any table of the examples' schema.
ConcatInit ==
    /\ LockIdle
    /\ QueryIdle
    /\ textRows \in TextTables
    /\ column = "name"
    /\ pattern = <<>>
    /\ likeRun = NotRun
    /\ notLikeRun = NotRun
    /\ concatRun = NoConcat
    /\ backend = "postgres"
    /\ GenIdle

ConcatNext ==
    \E left \in TextColumns, operand \in Operands : RunConcat(left, operand) /\ TextStep

ConcatSpec == ConcatInit /\ [][ConcatNext]_vars

\* like and not_like with any table, column, pattern and backend; the
\* pattern is an expression of the column's type.
LikeInit ==
    /\ LockIdle
    /\ QueryIdle
    /\ textRows \in TextTables
    /\ column \in TextColumns
    /\ pattern \in Patterns \cup {Null}
    /\ Accepts(SqlTypeOf(column),
               IF pattern = Null THEN [kind |-> "option", value |-> Null]
               ELSE [kind |-> "str", value |-> pattern])
    /\ likeRun = NotRun
    /\ notLikeRun = NotRun
    /\ concatRun = NoConcat
    /\ backend \in Backends
    /\ GenIdle

LikeNext ==
    \/ RunLike /\ TextStep
    \/ RunNotLike /\ TextStep

LikeSpec == LikeInit /\ [][LikeNext]_vars

\* Whether a column or an operand can be NULL.
ColumnNullable(col) == col = "hair_color"

OperandNullable(operand) ==
    \/ operand.kind = "option"
    \/ operand.kind = "column" /\ ColumnNullable(operand.column)

\* C8: a concat that is accepted has type Text when neither the column nor
\* the operand is nullable and type Nullable<Text> when either is; it loads one
\* value per row, which is NULL exactly when the column's or the operand's
\* value at that row is NULL, and else the column's value followed by the
\* operand's.
C8_ConcatNullability ==
    concatRun.outcome = "ok" =>
        LET l == concatRun.left
            o == concatRun.operand
        IN  /\ (~ColumnNullable(l) /\ ~OperandNullable(o)) => concatRun.sqlType = "Text"
            /\ (ColumnNullable(l) \/ OperandNullable(o)) => concatRun.sqlType = "Nullable<Text>"
            /\ Len(concatRun.rows) = Len(textRows)
            /\ \A i \in 1..Len(textRows) :
                  LET a == textRows[i][l]
                      b == OperandValue(o, textRows[i])
                  IN  /\ concatRun.rows[i] = Null <=> (a = Null \/ b = Null)
                      /\ concatRun.rows[i] # Null => concatRun.rows[i] = a \o b
                      /\ concatRun.rows[i] = Null => concatRun.sqlType = "Nullable<Text>"

\* C8 witness: hair_color.concat("ish") over Sean (Green) and Tess (NULL) is
\* Nullable<Text> and loads "Greenish" and NULL.
C8_Witness ==
    /\ concatRun.outcome = "ok"
    /\ concatRun.left = "hair_color"
    /\ concatRun.operand = [kind |-> "str", value |-> Ish]
    /\ textRows = <<[name |-> Sean, hair_color |-> Green],
                    [name |-> Tess, hair_color |-> Null]>>
    /\ concatRun.sqlType = "Nullable<Text>"
    /\ concatRun.rows = <<Green \o Ish, Null>>

\* name.concat(" the Greatest")-like: a non-nullable column and a &str give
\* Text and no NULL.
C8_NonNullWitness ==
    /\ concatRun.outcome = "ok"
    /\ concatRun.left = "name"
    /\ concatRun.operand = [kind |-> "str", value |-> Ish]
    /\ textRows = <<[name |-> Sean, hair_color |-> Green],
                    [name |-> Tess, hair_color |-> Null]>>
    /\ concatRun.sqlType = "Text"
    /\ concatRun.rows = <<Sean \o Ish, Tess \o Ish>>

\* The rows a run loaded, as a set.
Loaded(run) == {run.rows[i] : i \in 1..Len(run.rows)}

\* C9 as stated: for the same column, pattern and table, the rows loaded with
\* like and the rows loaded with not_like are disjoint and together are all
\* rows of the table.
C9_LikeNotLikePartitionAllRows ==
    (likeRun.ran /\ notLikeRun.ran) =>
        /\ Loaded(likeRun) \cap Loaded(notLikeRun) = {}
        /\ Loaded(likeRun) \cup Loaded(notLikeRun) = 1..Len(textRows)

\* C9 amended: for the same column, pattern and table, the rows loaded with
\* like and the rows loaded with not_like are disjoint, and together they are
\* the rows whose column value is not NULL when the pattern is not NULL (all
\* rows for a column that is not nullable), and no row when the pattern is
\* NULL.
C9_LikeNotLikePartitionNonNullRows ==
    (likeRun.ran /\ notLikeRun.ran) =>
        /\ Loaded(likeRun) \cap Loaded(notLikeRun) = {}
        /\ Loaded(likeRun) \cup Loaded(notLikeRun) =
              {i \in 1..Len(textRows) : textRows[i][column] # Null /\ pattern # Null}
        /\ ~ColumnNullable(column) =>
              Loaded(likeRun) \cup Loaded(notLikeRun) = 1..Len(textRows)

\* C9 witness: over Sean (Green) and Tess (NULL), hair_color.like("%") loads
\* Sean's row, hair_color.not_like("%") loads nothing, and Tess's row is in
\* neither.
C9_Witness ==
    /\ likeRun.ran /\ notLikeRun.ran
    /\ textRows = <<[name |-> Sean, hair_color |-> Green],
                    [name |-> Tess, hair_color |-> Null]>>
    /\ column = "hair_color"
    /\ pattern = <<"%">>
    /\ likeRun.rows = <<1>>
    /\ notLikeRun.rows = <<>>

\* name.like("S%") loads Sean's row and name.not_like("S%") Tess's.
C9_ExampleWitness ==
    /\ likeRun.ran /\ notLikeRun.ran
    /\ textRows = <<[name |-> Sean, hair_color |-> Green],
                    [name |-> Tess, hair_color |-> Null]>>
    /\ column = "name"
    /\ pattern = <<"S", "%">>
    /\ likeRun.rows = <<1>>
    /\ notLikeRun.rows = <<2>>

(***************************************************************************)
(* Locking clauses from construction to the SQL text sent to a backend.    *)
(* The tests say which backend a clause is used on; the generation itself  *)
(* is modelled from the specification (section 4.4).                       *)
(***************************************************************************)

\* Most SQL texts sent in one run.
MaxSent == 2

\* The clauses a statement asks for.
Requested(a) ==
    (IF a.lock = "none" THEN {} ELSE {a.lock})
        \cup (IF a.modifier = "none" THEN {} ELSE {a.modifier})

\* Every clause on every backend.
SupportsAll(b, clause) == TRUE

\* The clauses the tests use on a backend: for_update() on every backend but
\* SQLite, for_no_key_update(), no_wait() and skip_locked() on PostgreSQL.
Supports(b, clause) ==
    CASE clause = "update" -> b # "sqlite"
      [] clause = "no_key_update" -> b = "postgres"
      [] clause \in {"no_wait", "skip_locked"} -> b = "postgres"

\* The SQL of a clause.
Token(clause) ==
    CASE clause = "update" -> "FOR UPDATE"
      [] clause = "no_key_update" -> "FOR NO KEY UPDATE"
      [] clause = "no_wait" -> "NOWAIT"
      [] clause = "skip_locked" -> "SKIP LOCKED"

\* The SQL text of a select with the given lock and modifier.
Render(lock, modifier) ==
    <<"SELECT">>
        \o (IF lock = "none" THEN <<>> ELSE <<Token(lock)>>)
        \o (IF modifier = "none" THEN <<>> ELSE <<Token(modifier)>>)

\* Generation of the SQL text of statement a for backend b: an error when a
\* asks for a clause b does not support.
Generate(a, b) ==
    IF \E clause \in Requested(a) : ~Supports(b, clause)
    THEN [error |-> TRUE, sql |-> <<>>]
    ELSE [error |-> FALSE, sql |-> Render(a.lock, a.modifier)]

\* table.order(name): a new statement without locking clause.
Select ==
    /\ ast' = NoClauses
    /\ UNCHANGED <<generated, sent>>

\* .for_update()
ForUpdate ==
    /\ ast.lock = "none"
    /\ ast' = [ast EXCEPT !.lock = "update"]
    /\ UNCHANGED <<generated, sent>>

\* .for_no_key_update()
ForNoKeyUpdate ==
    /\ ast.lock = "none"
    /\ ast' = [ast EXCEPT !.lock = "no_key_update"]
    /\ UNCHANGED <<generated, sent>>

\* .no_wait()
NoWait ==
    /\ ast.lock # "none" /\ ast.modifier = "none"
    /\ ast' = [ast EXCEPT !.modifier = "no_wait"]
    /\ UNCHANGED <<generated, sent>>

\* .skip_locked()
SkipLocked ==
    /\ ast.lock # "none" /\ ast.modifier = "none"
    /\ ast' = [ast EXCEPT !.modifier = "skip_locked"]
    /\ UNCHANGED <<generated, sent>>

\* .first(conn) / .load(conn): the SQL text is generated and, when that
\* succeeded, sent.
Run ==
    /\ Len(sent) < MaxSent
    /\ LET g == Generate(ast, backend)
       IN  /\ generated' = [run |-> 1 - generated.run,
                            outcome |-> IF g.error THEN "generation_error" ELSE "ok",
                            ast |-> ast]
           /\ sent' = IF g.error THEN sent
                      ELSE Append(sent, [ast |-> ast, sql |-> g.sql])
    /\ UNCHANGED ast

\* The other parts of the model stay as they are.
GenStep == UNCHANGED <<dbVars, issued, testVars, queryVars, textVars, backend, bindVars>>

\* Statements built and run for any one backend.
GenInit ==
    /\ LockIdle
    /\ QueryIdle
    /\ TextIdle
    /\ backend \in Backends
    /\ GenIdle

GenNext ==
    \/ Select /\ GenStep
    \/ ForUpdate /\ GenStep
    \/ ForNoKeyUpdate /\ GenStep
    \/ NoWait /\ GenStep
    \/ SkipLocked /\ GenStep
    \/ Run /\ GenStep

GenSpec == GenInit /\ [][GenNext]_vars

\* The tokens of an SQL text.
Tokens(sql) == {sql[i] : i \in 1..Len(sql)}

\* Backends without row-level lock syntax, and the clauses only PostgreSQL has.
NoRowLocks == {"sqlite"}

PostgresOnly == {"no_key_update", "no_wait", "skip_locked"}

\* The statement asks for a clause its backend lacks.
AsksUnsupported(a, b) ==
    \/ b \in NoRowLocks /\ Requested(a) # {}
    \/ b # "postgres" /\ Requested(a) \cap PostgresOnly # {}

\* C10: running a statement that asks for a clause the backend lacks ends in
\* a generation error and sends nothing; every SQL text that was sent has
\* exactly the locking clause and modifier its statement asked for, never none
\* and never another one, and the backend supports them.
C10_UnsupportedClauseIsGenerationError ==
    /\ [][(generated'.run # generated.run /\ AsksUnsupported(ast, backend))
             => (generated'.outcome = "generation_error" /\ sent' = sent)]_vars
    /\ [](\A i \in 1..Len(sent) :
             LET a == sent[i].ast
                 t == Tokens(sent[i].sql)
             IN  /\ "FOR UPDATE" \in t <=> a.lock = "update"
                 /\ "FOR NO KEY UPDATE" \in t <=> a.lock = "no_key_update"
                 /\ "NOWAIT" \in t <=> a.modifier = "no_wait"
                 /\ "SKIP LOCKED" \in t <=> a.modifier = "skip_locked"
                 /\ ~AsksUnsupported(a, backend))

\* C10 witness: on SQLite, for_update().skip_locked() was run: a generation
\* error, and nothing was sent.
C10_Witness ==
    /\ backend = "sqlite"
    /\ generated.outcome = "generation_error"
    /\ generated.ast = [lock |-> "update", modifier |-> "skip_locked"]
    /\ sent = <<>>

\* On MySQL, for_update() is sent as asked, and for_update().no_wait() is a
\* generation error.
C10_ModifierWitness ==
    /\ backend = "mysql"
    /\ generated.outcome = "generation_error"
    /\ generated.ast = [lock |-> "update", modifier |-> "no_wait"]
    /\ sent = <<[ast |-> [lock |-> "update", modifier |-> "none"],
                 sql |-> <<"SELECT", "FOR UPDATE">>]>>

(***************************************************************************)
(* Bound parameters: a value given to eq() becomes a placeholder of the    *)
(* SQL text and an entry of the list of bound parameters                   *)
(* (selecting_expression_with_bind_param, selection_using_subselect).      *)
(* The walk over the statement is modelled from the specification          *)
(* (sections 4.4, 4.5).                                                    *)
(***************************************************************************)

\* left.and(right)
And(left, right) == [op |-> "and", left |-> left, right |-> right]

\* users.select(name.eq(n))
UsersSelectNameEq(n) ==
    Statement("users", Eq(Column("users", "name"), n), True)

\* What is selected from posts: the title, or title.eq(t).
PostsSelections ==
    {Column("posts", "title")} \cup {Eq(Column("posts", "title"), t) : t \in Titles}

\* The filters of posts: none, on the title, by a subselect on the users'
\* names, and both in either order.
PostsFilters ==
    LET byTitle == {Eq(Column("posts", "title"), t) : t \in Titles}
        byUser == {EqAny(Column("posts", "user_id"), UsersWhere("name", n)) : n \in UserNames}
    IN  {True} \cup byTitle \cup byUser
            \cup {And(p, q) : p \in byTitle, q \in byUser}
            \cup {And(q, p) : p \in byTitle, q \in byUser}

\* The statements with bound parameters.
BindStatements ==
    {UsersSelectNameEq(n) : n \in UserNames}
        \cup {Statement("posts", sel, f) : sel \in PostsSelections, f \in PostsFilters}

\* A piece of SQL text, and a bound value at its place in the text.
Sql(s) == [t |-> "sql", s |-> s]

BindParam(v) == [t |-> "bind", s |-> v]

WalkColumn(col) == <<Sql(col.table), Sql("."), Sql(col.name)>>

\* The walk over what is selected: a column, or column = value.
WalkSelect(sel) ==
    IF "op" \in DOMAIN sel
    THEN WalkColumn(sel.col) \o <<Sql("="), BindParam(sel.value)>>
    ELSE WalkColumn(sel)

RECURSIVE WalkFilter(_)
RECURSIVE WalkStatement(_)

\* The walk over a filter, in the order of the SQL text; a subselect is
\* walked at its place, inside parentheses.
WalkFilter(p) ==
    CASE p.op = "true" -> <<>>
      [] p.op = "eq" -> WalkColumn(p.col) \o <<Sql("="), BindParam(p.value)>>
      [] p.op = "eq_col" -> WalkColumn(p.col) \o <<Sql("=")>> \o WalkColumn(p.other)
      [] p.op = "eq_any" ->
            WalkColumn(p.col) \o <<Sql("IN"), Sql("(")>>
                \o WalkStatement(p.sub) \o <<Sql(")")>>
      [] p.op = "and" ->
            WalkFilter(p.left) \o <<Sql("AND")>> \o WalkFilter(p.right)

\* The walk over a statement.
WalkStatement(st) ==
    <<Sql("SELECT")>> \o WalkSelect(st.select) \o <<Sql("FROM"), Sql(st.from)>>
        \o (IF st.filter.op = "true" THEN <<>>
            ELSE <<Sql("WHERE")>> \o WalkFilter(st.filter))

\* The number of tokens of kind t among the first j.
Ordinal(tokens, t, j) == Cardinality({k \in 1..j : tokens[k].t = t})

\* PostgreSQL numbers its placeholders.
Dollar == <<"$1", "$2", "$3">>

\* The placeholder of the i-th bound parameter.
Placeholder(b, i) == IF b = "postgres" THEN Dollar[i] ELSE "?"

\* The SQL text of a walk: each bound value replaced by its placeholder.
ToSql(tokens, b) ==
    [j \in 1..Len(tokens) |->
        IF tokens[j].t = "bind"
        THEN [t |-> "placeholder", s |-> Placeholder(b, Ordinal(tokens, "bind", j))]
        ELSE tokens[j]]

\* The bound values in the opposite order.
CollectBindsReversed(tokens) ==
    LET binds == SelectSeq(tokens, LAMBDA tok : tok.t = "bind")
    IN  [i \in 1..Len(binds) |-> binds[Len(binds) + 1 - i].s]

\* The bound parameters of a walk: its bound values, in the walk's order.
CollectBinds(tokens) ==
    LET binds == SelectSeq(tokens, LAMBDA tok : tok.t = "bind")
    IN  [i \in 1..Len(binds) |-> binds[i].s]

\* The position in the list of bound parameters a placeholder stands for.
PlaceholderIndex(sql, j) ==
    IF sql[j].s = "?" THEN Ordinal(sql, "placeholder", j)
    ELSE CHOOSE i \in 1..Len(Dollar) : Dollar[i] = sql[j].s

\* The backend fills each placeholder with the bound parameter of its position.
BindPositionally(sql, binds) ==
    [j \in 1..Len(sql) |->
        IF sql[j].t = "placeholder"
        THEN [t |-> "literal", s |-> binds[PlaceholderIndex(sql, j)]]
        ELSE sql[j]]

\* statement.load(conn): the SQL text and the bound parameters of the
\* statement are handed to the connection.
LoadBound ==
    /\ built # NoStatement
    /\ ~prepared.done
    /\ prepared' = [sql |-> ToSql(WalkStatement(built), backend),
                    binds |-> CollectBinds(WalkStatement(built)),
                    done |-> TRUE]
    /\ UNCHANGED <<wire, queryVars>>

\* The backend runs the statement with the parameters bound.
RunBound ==
    /\ prepared.done
    /\ wire = <<>>
    /\ wire' = BindPositionally(prepared.sql, prepared.binds)
    /\ UNCHANGED <<prepared, queryVars>>

\* The other parts of the model stay as they are.
BindStep == UNCHANGED <<dbVars, issued, testVars, textVars, genVars>>

\* A statement with bound parameters on any one backend.
BindInit ==
    /\ LockIdle
    /\ QueryIdle
    /\ TextIdle
    /\ backend \in Backends
    /\ GenIdle

BindNext ==
    \/ \E q \in BindStatements : Build(q) /\ UNCHANGED bindVars /\ BindStep
    \/ LoadBound /\ BindStep
    \/ RunBound /\ BindStep

BindSpec == BindInit /\ [][BindNext]_vars

\* C11: the SQL text handed to the connection has one placeholder for each
\* value of the statement, at the value's place, and as many bound parameters
\* as placeholders; the i-th bound parameter is the value at the place of the
\* i-th placeholder, so that the backend runs the statement with every value
\* at its own place, in what is selected, in the filter and inside a subselect.
C11_BindOrderIsPlaceholderOrder ==
    LET w == WalkStatement(built)
    IN  /\ prepared.done =>
            /\ Len(prepared.sql) = Len(w)
            /\ Len(prepared.binds) = Ordinal(prepared.sql, "placeholder", Len(prepared.sql))
            /\ \A j \in 1..Len(w) :
                  /\ prepared.sql[j].t = "placeholder" <=> w[j].t = "bind"
                  /\ w[j].t = "bind" =>
                        prepared.binds[Ordinal(prepared.sql, "placeholder", j)] = w[j].s
        /\ wire # <<>> =>
            /\ Len(wire) = Len(w)
            /\ \A j \in 1..Len(w) :
                  IF w[j].t = "bind" THEN wire[j] = [t |-> "literal", s |-> w[j].s]
                  ELSE wire[j] = w[j]

\* C11 witness: posts.select(title.eq("Hello")).filter(user_id.eq_any(users
\* named "Sean").and(title.eq("Tess"))) was run on PostgreSQL: the parameters
\* are Hello, Sean, Tess, and "Sean" is the value compared with users.name
\* inside the subselect.
C11_Witness ==
    /\ backend = "postgres"
    /\ built = Statement("posts", Eq(Column("posts", "title"), "Hello"),
                         And(EqAny(Column("posts", "user_id"), UsersWhere("name", "Sean")),
                             Eq(Column("posts", "title"), "Tess")))
    /\ prepared.binds = <<"Hello", "Sean", "Tess">>
    /\ Len(wire) = 33
    /\ SubSeq(prepared.sql, 22, 26) =
          <<Sql("users"), Sql("."), Sql("name"), Sql("="), [t |-> "placeholder", s |-> "$2"]>>
    /\ SubSeq(wire, 22, 26) =
          <<Sql("users"), Sql("."), Sql("name"), Sql("="), [t |-> "literal", s |-> "Sean"]>>

\* selection_using_subselect on a backend with ? placeholders: one parameter,
\* "Sean", inside the subselect.
C11_SubselectWitness ==
    /\ backend = "sqlite"
    /\ built = PostsOfUsers(UsersWhere("name", "Sean"))
    /\ prepared.binds = <<"Sean">>
    /\ wire # <<>>
    /\ \E j \in 1..Len(wire) : wire[j] = [t |-> "literal", s |-> "Sean"]

====
